---------------------------- MODULE Spec2Model ----------------------------
(***************************************************************************)
(* Model of the image tiling utilities of src/img_utils.py:                *)
(*   gridCrop / _gridCropCorners  split an image into tiles ("crops"),     *)
(*   stitchCrops / stitchBinary   merge a list of crops into one image.    *)
(*                                                                         *)
(* The code is Python 2: range() returns a list, so that                   *)
(* c_indices.append(...) on line 54 extends it.  An image is a record      *)
(* [mode, size, px] with size = <<width, height>> (PIL's Image.size) and   *)
(* px a function from <<x, y>> to the sample; a numpy array is a function  *)
(* from <<row, column>> to the sample.  Samples are non-negative integers. *)
(* The len() assertion of lines 47-49 always passes: sizes are pairs.      *)
(* The if of line 154 in stitchBinary has no body; it is modelled as the   *)
(* test with an empty branch.  Image.fromarray keeps the samples of the    *)
(* integer buffer.  The warning of line 124 changes no state.              *)
(***************************************************************************)
EXTENDS Integers, Sequences, FiniteSets, TLC

VARIABLES pc,              \* position of the caller: "start", "cropped", "done"
          fn,              \* the function last called
          img,             \* gridCrop: the source image
          im_dims,         \* _gridCropCorners: im_dims (= img.size)
          crop_size,       \* crop_dims / crop_size argument
          stride_size,     \* stride_size argument (None: default)
          include_excess,  \* include_excess argument
          c_indices,       \* _gridCropCorners: local c_indices
          r_indices,       \* _gridCropCorners: local r_indices
          crop_corners,    \* value returned by _gridCropCorners
          crop_imgs,       \* list of crop dicts [img, corner]
          method,          \* stitch*: method argument
          img_dims,        \* stitch*: local img_dims
          img_np,          \* stitch*: local accumulation buffer
          trace,           \* stitch*: img_np after each iteration of the loop
          result,          \* image returned by stitch*
          err              \* exception that ended the call, or None

vars == <<pc, fn, img, im_dims, crop_size, stride_size, include_excess,
          c_indices, r_indices, crop_corners, crop_imgs, method, img_dims,
          img_np, trace, result, err>>

None == "None"

\* the value of an image variable that holds no image
NoImage == [mode |-> None, size |-> <<0, 0>>, px |-> <<>>]

-----------------------------------------------------------------------------
(* Bounds of the model.                                                    *)

MaxDim == 4        \* image width and height range over 1..MaxDim
MaxCrops == 3      \* length of the crop list handed to stitch*
MaxCorner == 1     \* offset of a hand-made crop along its axis: 0..MaxCorner
MaxCropDim == 2    \* length of a hand-made crop along its axis: 1..MaxCropDim
MaxFill == 1       \* first sample of a generated raster: 0..MaxFill

-----------------------------------------------------------------------------
(* Python and numpy primitives.                                            *)

RECURSIVE RangeFrom(_, _, _)
RangeFrom(v, stop, step) ==
    IF (step > 0 /\ v < stop) \/ (step < 0 /\ v > stop)
    THEN <<v>> \o RangeFrom(v + step, stop, step)
    ELSE <<>>

\* range(0, stop, step) of Python 2 for step # 0 (step = 0 raises ValueError)
range(stop, step) == RangeFrom(0, stop, step)

RECURSIVE bitwise_or(_, _)
bitwise_or(a, b) ==
    IF a = 0 THEN b
    ELSE IF b = 0 THEN a
    ELSE (a % 2) + (b % 2) - (a % 2) * (b % 2) + 2 * bitwise_or(a \div 2, b \div 2)

RECURSIVE bitwise_and_AsOr(_, _)
bitwise_and_AsOr(a, b) ==
    IF a = 0 THEN b
    ELSE IF b = 0 THEN a
    ELSE (a % 2) + (b % 2) - (a % 2) * (b % 2) + 2 * bitwise_and_AsOr(a \div 2, b \div 2)

RECURSIVE bitwise_and(_, _)
bitwise_and(a, b) ==
    IF a = 0 \/ b = 0 THEN 0
    ELSE (a % 2) * (b % 2) + 2 * bitwise_and(a \div 2, b \div 2)

\* (img_section + crop_np) / 2.0 stored into the dtype=int buffer: the float
\* is truncated; operands are non-negative, so truncation is \div.
average(a, b) == (a + b) \div 2

\* numpy.asarray(image): element [row, column] is the pixel (x=column, y=row)
asarray(im) ==
    [p \in (0 .. im.size[2] - 1) \X (0 .. im.size[1] - 1) |-> im.px[<<p[2], p[1]>>]]

\* shape of the array of an image: (rows, columns)
Shape(rows, cols) == (0 .. rows - 1) \X (0 .. cols - 1)

\* Image.fromarray(array) of an integer array of the given (rows, columns)
fromarray(arr, rows, cols) ==
    [mode |-> "I", size |-> <<cols, rows>>,
     px   |-> [p \in (0 .. cols - 1) \X (0 .. rows - 1) |-> arr[<<p[2], p[1]>>]]]

\* Image.crop(box): the box's pixels; PIL fills what lies outside with 0
Image_crop(im, box) ==
    [mode |-> im.mode,
     size |-> <<box[3] - box[1], box[4] - box[2]>>,
     px   |-> [p \in (0 .. box[3] - box[1] - 1) \X (0 .. box[4] - box[2] - 1) |->
                 LET q == <<box[1] + p[1], box[2] + p[2]>>
                 IN  IF q \in DOMAIN im.px THEN im.px[q] ELSE 0]]

-----------------------------------------------------------------------------
(* _gridCropCorners (src/img_utils.py:43-63).                              *)

NoStride == <<>>       \* stride_size=None

\* lines 44-45: the stride defaults to the crop size
StrideOf(crop, stride) == IF stride = NoStride THEN crop ELSE stride

Indices_NoExcess(dim, crop, step, excess) == range(dim - crop, step)

Indices_AppendDim(dim, crop, step, excess) ==
    range(dim - crop, step) \o (IF excess THEN <<dim>> ELSE <<>>)

\* lines 51-55 for one axis: the regular offsets, then the boundary offset
Indices(dim, crop, step, excess) ==
    range(dim - crop, step) \o (IF excess THEN <<dim - crop>> ELSE <<>>)

\* lines 57-61: every (c, r), c in the outer loop and r in the inner one
CornerProduct(cs, rs) ==
    [k \in 1 .. Len(cs) * Len(rs) |->
        <<cs[((k - 1) \div Len(rs)) + 1], rs[((k - 1) % Len(rs)) + 1]>>]

_gridCropCorners(dims, crop, stride, excess) ==
    LET st == StrideOf(crop, stride)
        cs == Indices(dims[1], crop[1], st[1], excess)
        rs == Indices(dims[2], crop[2], st[2], excess)
    IN  IF st[1] = 0 \/ st[2] = 0
        THEN [err |-> "ValueError", c_indices |-> <<>>, r_indices |-> <<>>,
              crop_corners |-> <<>>]
        ELSE [err |-> None, c_indices |-> cs, r_indices |-> rs,
              crop_corners |-> CornerProduct(cs, rs)]

-----------------------------------------------------------------------------
(* Calls of _gridCropCorners on image, crop and stride dimensions.         *)

ExampleDims == <<10, 10>>
ExampleCrop == <<4, 4>>

GridArgs ==
    ((1 .. MaxDim) \X (1 .. MaxDim)) \X ((1 .. MaxDim + 1) \X (1 .. MaxDim + 1))
        \X ({NoStride} \cup (((-1) .. MaxDim) \X ((-1) .. MaxDim)))
    \cup {<<ExampleDims, ExampleCrop, NoStride>>, <<ExampleDims, ExampleCrop, ExampleCrop>>}

Idle ==
    /\ img = None /\ crop_imgs = <<>> /\ method = None /\ img_dims = <<>>
    /\ img_np = <<>> /\ trace = <<>> /\ result = NoImage

InitGrid ==
    /\ pc = "start" /\ fn = None /\ err = None
    /\ \E a \in GridArgs : im_dims = a[1] /\ crop_size = a[2] /\ stride_size = a[3]
    /\ include_excess \in BOOLEAN
    /\ c_indices = <<>> /\ r_indices = <<>> /\ crop_corners = <<>>
    /\ Idle

GridCropCorners ==
    /\ pc = "start"
    /\ LET r == _gridCropCorners(im_dims, crop_size, stride_size, include_excess)
       IN  /\ err' = r.err
           /\ c_indices' = r.c_indices
           /\ r_indices' = r.r_indices
           /\ crop_corners' = r.crop_corners
    /\ pc' = "done" /\ fn' = "_gridCropCorners"
    /\ UNCHANGED <<img, im_dims, crop_size, stride_size, include_excess, crop_imgs,
                   method, img_dims, img_np, trace, result>>

NextGrid == GridCropCorners

SpecGrid == InitGrid /\ [][NextGrid]_vars

-----------------------------------------------------------------------------
(* Footprints.                                                             *)

Footprint(corner, size) ==
    (corner[1] .. corner[1] + size[1] - 1) \X (corner[2] .. corner[2] + size[2] - 1)

Rect(dims) == (0 .. dims[1] - 1) \X (0 .. dims[2] - 1)

Covered(corners, size) == UNION {Footprint(corners[k], size) : k \in DOMAIN corners}

Disjoint(corners, size) ==
    \A j, k \in DOMAIN corners :
        j # k => Footprint(corners[j], size) \cap Footprint(corners[k], size) = {}

Stride == StrideOf(crop_size, stride_size)

Returned == pc = "done" /\ fn = "_gridCropCorners"

CropFits == crop_size[1] <= im_dims[1] /\ crop_size[2] <= im_dims[2]

StridePositive == Stride[1] > 0 /\ Stride[2] > 0

StrideWithinCrop == Stride[1] <= crop_size[1] /\ Stride[2] <= crop_size[2]

\* C1 as stated: with include_excess, a crop that fits and any positive stride,
\* the footprints of the returned corners cover the whole image rectangle.
C1_Coverage_AnyStride ==
    (Returned /\ include_excess /\ CropFits /\ StridePositive)
        => (err = None /\ Covered(crop_corners, crop_size) = Rect(im_dims))

\* C1 amended: with include_excess, a crop that fits and a positive stride no
\* larger than the crop in either axis, the union of the footprints of the
\* returned corners equals the image rectangle [0,W) x [0,H).
C1_Coverage ==
    (Returned /\ include_excess /\ CropFits /\ StridePositive /\ StrideWithinCrop)
        => (err = None /\ Covered(crop_corners, crop_size) = Rect(im_dims))

C1_Witness ==
    /\ Returned /\ include_excess /\ CropFits /\ StridePositive /\ StrideWithinCrop
    /\ (im_dims[1] - crop_size[1]) % Stride[1] # 0
    /\ (im_dims[2] - crop_size[2]) % Stride[2] # 0
    /\ Len(crop_corners) = 9
    /\ Covered(crop_corners, crop_size) = Rect(im_dims)

\* C5: with include_excess, a crop no wider than the image and a positive
\* stride that does not divide W - tw, the x-offsets of a call that returns
\* hold W - tw exactly once, as their last element, right after the largest
\* multiple of the stride below W - tw, from which it differs; the same for
\* the y-offsets.  The 10x10 image with 4x4 crops and stride 4x4 gets the
\* offsets 0, 4, 6 on each axis and 9 corners.
BoundaryLast(idx, dim, crop, step) ==
    (crop <= dim /\ step > 0 /\ (dim - crop) % step # 0) =>
        /\ Len(idx) >= 2
        /\ idx[Len(idx)] = dim - crop
        /\ \A k \in 1 .. Len(idx) - 1 : idx[k] # dim - crop
        /\ idx[Len(idx) - 1] = ((dim - crop) \div step) * step
        /\ idx[Len(idx) - 1] < dim - crop

C5_BoundaryInclusion ==
    (Returned /\ err = None /\ include_excess) =>
        /\ BoundaryLast(c_indices, im_dims[1], crop_size[1], Stride[1])
        /\ BoundaryLast(r_indices, im_dims[2], crop_size[2], Stride[2])
        /\ (im_dims = ExampleDims /\ crop_size = ExampleCrop /\ Stride = ExampleCrop) =>
              /\ c_indices = <<0, 4, 6>>
              /\ r_indices = <<0, 4, 6>>
              /\ Len(crop_corners) = 9

C5_Witness ==
    /\ Returned /\ err = None /\ include_excess
    /\ im_dims = ExampleDims /\ crop_size = ExampleCrop /\ Stride = ExampleCrop
    /\ (im_dims[1] - crop_size[1]) % Stride[1] # 0
    /\ c_indices = <<0, 4, 6>>

\* C3 as stated: when the stride equals the crop size and the image
\* dimensions are exact multiples of it, the returned corners have pairwise
\* disjoint footprints that partition the image, and the corner list is the
\* same with include_excess as without.
C3_NoOverlapCase ==
    (Returned /\ Stride = crop_size /\ CropFits
        /\ im_dims[1] % crop_size[1] = 0 /\ im_dims[2] % crop_size[2] = 0) =>
        /\ err = None
        /\ Disjoint(crop_corners, crop_size)
        /\ Covered(crop_corners, crop_size) = Rect(im_dims)
        /\ crop_corners =
             _gridCropCorners(im_dims, crop_size, stride_size, ~include_excess).crop_corners

\* C6 as stated: a crop larger than the image or a stride that is not
\* positive ends the call in an error, and no corner list is returned.
C6_PreconditionFailure ==
    (Returned /\ (~CropFits \/ ~StridePositive)) =>
        (err # None /\ crop_corners = <<>>)

-----------------------------------------------------------------------------
(* stitchCrops and stitchBinary (src/img_utils.py:65-201).                 *)

Methods == {"average", "and", "or", "xor"}

MaxOf(S) == CHOOSE m \in S : \A x \in S : x <= m

Corners(crops) == {crops[k].corner : k \in DOMAIN crops}
Sizes(crops) == {crops[k].img.size : k \in DOMAIN crops}

\* lines 89-104 (and 157-172): the largest corner plus the largest size,
\* each maximum starting from 0
ImgDims(crops) ==
    <<MaxOf({0} \cup {c[1] : c \in Corners(crops)}) + MaxOf({0} \cup {s[1] : s \in Sizes(crops)}),
      MaxOf({0} \cup {c[2] : c \in Corners(crops)}) + MaxOf({0} \cup {s[2] : s \in Sizes(crops)})>>

Blend_OrAsAverage(m, existing, incoming) ==
    IF m = "and" THEN bitwise_and(existing, incoming)
    ELSE average(existing, incoming)

\* lines 116-126 (and 184-194): the blend of one existing and one incoming
\* sample; an unknown method warns and averages
Blend(m, existing, incoming) ==
    IF m = "or" THEN bitwise_or(existing, incoming)
    ELSE IF m = "and" THEN bitwise_and(existing, incoming)
    ELSE average(existing, incoming)

\* lines 111-128 (and 179-196): one iteration of the stitching loop.  The
\* section is rows corner[1]..corner[1]+height and columns
\* corner[0]..corner[0]+width of the buffer.
StitchOne(buf, c, m) ==
    LET crop_np == asarray(c.img)
        r0 == c.corner[2]
        c0 == c.corner[1]
    IN  [p \in DOMAIN buf |->
            IF /\ p[1] >= r0 /\ p[1] < r0 + c.img.size[2]
               /\ p[2] >= c0 /\ p[2] < c0 + c.img.size[1]
            THEN Blend(m, buf[p], crop_np[<<p[1] - r0, p[2] - c0>>])
            ELSE buf[p]]

\* line 107 (and 175): numpy.zeros((img_dims[1], img_dims[0]), dtype=int)
zeros(dims) == [p \in Shape(dims[2], dims[1]) |-> 0]

\* the buffers of the loop of lines 110-128 up to its k-th iteration: the
\* zero buffer first, then the buffer after each iteration
RECURSIVE StitchPrefix(_, _, _)
StitchPrefix(crops, m, k) ==
    IF k = 0 THEN <<zeros(ImgDims(crops))>>
    ELSE LET before == StitchPrefix(crops, m, k - 1)
         IN  Append(before, StitchOne(before[k], crops[k], m))

Stitched(crops, m) ==
    LET dims == ImgDims(crops)
        bufs == StitchPrefix(crops, m, Len(crops))
    IN  [err |-> None, img_dims |-> dims, img_np |-> bufs[Len(bufs)],
         trace |-> Tail(bufs),
         result |-> fromarray(bufs[Len(bufs)], dims[2], dims[1])]

Raised(e) ==
    [err |-> e, img_dims |-> <<>>, img_np |-> <<>>, trace |-> <<>>, result |-> NoImage]

stitchCrops(crops, m) ==
    IF crops = <<>> THEN Raised("IndexError")                         \* line 83
    ELSE IF \E k \in DOMAIN crops : crops[k].img.mode # crops[1].img.mode
         THEN Raised("AssertionError")                                \* lines 86-87
         ELSE Stitched(crops, m)

\* line 154: not np.array_equal(crop['img'], crop['img'].astype(bool))
NotBinary(c) == \E p \in DOMAIN c.img.px : c.img.px[p] \notin {0, 1}

\* lines 152-155: the loop evaluates the test on every crop, and the branch
\* taken when it fails holds no statement: nothing is raised
stitchBinary(crops, m) ==
    IF \E k \in DOMAIN crops : NotBinary(crops[k])
    THEN Stitched(crops, m)
    ELSE Stitched(crops, m)

-----------------------------------------------------------------------------
(* gridCrop (src/img_utils.py:5-41).                                       *)

\* lines 31-39: one crop dict per corner
CropsAt(im, corners, dims) ==
    [k \in DOMAIN corners |->
        [img    |-> Image_crop(im, <<corners[k][1], corners[k][2],
                                     corners[k][1] + dims[1], corners[k][2] + dims[2]>>),
         corner |-> corners[k]]]

gridCrop(im, dims, stride, excess) ==
    LET r == _gridCropCorners(im.size, dims, stride, excess)
    IN  [err |-> r.err, c_indices |-> r.c_indices, r_indices |-> r.r_indices,
         crop_corners |-> r.crop_corners,
         crop_imgs |-> IF r.err = None THEN CropsAt(im, r.crop_corners, dims) ELSE <<>>]

-----------------------------------------------------------------------------
(* Callers.                                                                *)

\* the w x h image whose samples count up from fill, row after row
Raster(w, h, fill) ==
    [mode |-> "L", size |-> <<w, h>>,
     px   |-> [p \in (0 .. w - 1) \X (0 .. h - 1) |-> fill + p[1] + w * p[2]]]

GridCrop ==
    /\ pc = "start"
    /\ LET r == gridCrop(img, crop_size, stride_size, include_excess)
       IN  /\ err' = r.err
           /\ c_indices' = r.c_indices
           /\ r_indices' = r.r_indices
           /\ crop_corners' = r.crop_corners
           /\ crop_imgs' = r.crop_imgs
           /\ pc' = IF r.err = None THEN "cropped" ELSE "done"
    /\ fn' = "gridCrop"
    /\ UNCHANGED <<img, im_dims, crop_size, stride_size, include_excess,
                   method, img_dims, img_np, trace, result>>

Finish(r, f, m) ==
    /\ err' = r.err /\ img_dims' = r.img_dims /\ img_np' = r.img_np
    /\ trace' = r.trace /\ result' = r.result
    /\ method' = m /\ fn' = f /\ pc' = "done"
    /\ UNCHANGED <<img, im_dims, crop_size, stride_size, include_excess,
                   c_indices, r_indices, crop_corners, crop_imgs>>

StitchCrops ==
    /\ pc = "cropped"
    /\ \E m \in Methods : Finish(stitchCrops(crop_imgs, m), "stitchCrops", m)

StitchBinary ==
    /\ pc = "cropped"
    /\ \E m \in Methods : Finish(stitchBinary(crop_imgs, m), "stitchBinary", m)

\* <<a, b>> laid along the x axis (axis 1) or along the y axis (axis 2)
Along(axis, a, b) == IF axis = 1 THEN <<a, b>> ELSE <<b, a>>

\* crops made by hand: strips one sample thick laid along one axis, of any
\* length and at any offset within the bounds, counting up from fill f
HandCrops(axis, f) ==
    {[img    |-> Raster(Along(axis, n, 1)[1], Along(axis, n, 1)[2], f),
      corner |-> Along(axis, x, 0)] :
        n \in 1 .. MaxCropDim, x \in 0 .. MaxCorner}

CropLists ==
    UNION {[1 .. n -> HandCrops(axis, f)] :
              n \in 1 .. MaxCrops, axis \in {1, 2}, f \in 0 .. MaxFill}

InitStitch ==
    /\ pc = "cropped" /\ fn = None /\ err = None
    /\ crop_imgs \in CropLists
    /\ img = None /\ im_dims = <<>> /\ crop_size = <<>> /\ stride_size = NoStride
    /\ include_excess = FALSE
    /\ c_indices = <<>> /\ r_indices = <<>> /\ crop_corners = <<>>
    /\ method = None /\ img_dims = <<>> /\ img_np = <<>> /\ trace = <<>>
    /\ result = NoImage

NextStitch == StitchCrops \/ StitchBinary

SpecStitch == InitStitch /\ [][NextStitch]_vars

InitRound ==
    /\ pc = "start" /\ fn = None /\ err = None
    /\ \E w, h \in 1 .. MaxDim, f \in 0 .. MaxFill :
          /\ img = Raster(w, h, f)
          /\ im_dims = <<w, h>>
          /\ crop_size \in (1 .. w) \X (1 .. h)
    /\ stride_size \in {NoStride} \cup ((1 .. MaxDim) \X (1 .. MaxDim))
    /\ include_excess \in BOOLEAN
    /\ c_indices = <<>> /\ r_indices = <<>> /\ crop_corners = <<>>
    /\ crop_imgs = <<>> /\ method = None /\ img_dims = <<>> /\ img_np = <<>>
    /\ trace = <<>> /\ result = NoImage

Next == GridCrop \/ StitchCrops

Spec == InitRound /\ [][Next]_vars

-----------------------------------------------------------------------------
(* Properties of the merge.                                                *)

Merged(f) == pc = "done" /\ fn = f

CropFootprint(c) == Footprint(c.corner, c.img.size)

DisjointCrops(crops) ==
    \A j, k \in DOMAIN crops :
        j # k => CropFootprint(crops[j]) \cap CropFootprint(crops[k]) = {}

\* the sample of crop c that lies on pixel p of the merged image
SampleAt(c, p) == c.img.px[<<p[1] - c.corner[1], p[2] - c.corner[2]>>]

\* C2 as stated: when no two crops overlap, the image returned by stitchCrops
\* holds, on every pixel of every crop's footprint, that crop's sample,
\* whichever of average, and, or is the method.
C2_DisjointPlacement ==
    (Merged("stitchCrops") /\ method \in {"average", "and", "or"}
        /\ DisjointCrops(crop_imgs)) =>
        /\ err = None
        /\ \A k \in DOMAIN crop_imgs : \A p \in CropFootprint(crop_imgs[k]) :
              result.px[p] = SampleAt(crop_imgs[k], p)

BoundingBox(crops) ==
    <<MaxOf({crops[k].corner[1] + crops[k].img.size[1] : k \in DOMAIN crops}),
      MaxOf({crops[k].corner[2] + crops[k].img.size[2] : k \in DOMAIN crops})>>

\* C4 as stated: the image returned for a non-empty crop list, crops of
\* different sizes included, is as wide as the largest corner.x + width and as
\* high as the largest corner.y + height.
C4_OutputSize ==
    (Merged("stitchCrops") /\ crop_imgs # <<>>) =>
        (err = None /\ result.size = BoundingBox(crop_imgs))

\* The code's size agrees with the bounding box when all crops have one size.
SameSizeOutputSize ==
    (Merged("stitchCrops") /\ crop_imgs # <<>> /\ Cardinality(Sizes(crop_imgs)) = 1) =>
        (err = None /\ result.size = BoundingBox(crop_imgs) /\ img_dims = result.size)

\* C7 as stated: stitchBinary on a crop list in which some crop holds a sample
\* outside {0,1} ends in an error and returns no image, whatever the method.
C7_BinaryValidation ==
    (Merged("stitchBinary") /\ \E k \in DOMAIN crop_imgs : NotBinary(crop_imgs[k])) =>
        (err # None /\ trace = <<>>)

\* the indices of the crops that cover pixel p, in input order
Covering(crops, p) == {k \in DOMAIN crops : p \in CropFootprint(crops[k])}

\* C8 as stated: under 'average' a pixel covered by exactly three crops with
\* samples t1, t2, t3 in input order ends as average(average(t1, t2), t3)
\* = (t1 + t2 + 2*t3) / 4, here as stored in the integer image.
C8_PairwiseFold ==
    (Merged("stitchCrops") /\ method = "average" /\ err = None) =>
        \A p \in DOMAIN result.px :
            Cardinality(Covering(crop_imgs, p)) = 3 =>
                LET t1 == SampleAt(crop_imgs[1], p)
                    t2 == SampleAt(crop_imgs[2], p)
                    t3 == SampleAt(crop_imgs[3], p)
                IN  result.px[p] = (t1 + t2 + 2 * t3) \div 4

AllZero(arr) == \A p \in DOMAIN arr : arr[p] = 0

\* C9: under 'and' the accumulation buffer is all zero after every iteration
\* of the stitching loop, and so is the returned image, whatever the samples.
C9_AndIsZero ==
    (pc = "done" /\ fn \in {"stitchCrops", "stitchBinary"} /\ method = "and"
        /\ err = None) =>
        /\ \A k \in DOMAIN trace : AllZero(trace[k])
        /\ Len(trace) = Len(crop_imgs)
        /\ AllZero(img_np)
        /\ AllZero(result.px)

C9_Witness ==
    /\ Merged("stitchCrops") /\ method = "and" /\ err = None
    /\ Len(crop_imgs) = 3
    /\ \E p \in DOMAIN result.px :
          /\ Cardinality(Covering(crop_imgs, p)) = 3
          /\ \A k \in 1 .. 3 : SampleAt(crop_imgs[k], p) = 1
    /\ AllZero(img_np)

\* C10: gridCrop with include_excess and a positive stride no larger than the
\* crop, followed by stitchCrops with method 'or', returns an image of the
\* size of the source whose every pixel is the source pixel.
C10_RoundTrip ==
    (Merged("stitchCrops") /\ method = "or" /\ include_excess /\ StrideWithinCrop) =>
        /\ err = None
        /\ result.size = img.size
        /\ result.px = img.px

C10_Witness ==
    /\ Merged("stitchCrops") /\ method = "or" /\ include_excess /\ StrideWithinCrop
    /\ Len(crop_imgs) = 9
    /\ ~DisjointCrops(crop_imgs)
    /\ \E p \in DOMAIN img.px : img.px[p] > 0
    /\ result.px = img.px

=============================================================================
